---- MODULE Spec2Model ----
(***************************************************************************)
(* Model of reflections_sync.py: one run of main() is a linear sequence of *)
(* blocking calls against Todoist (project list, task list) and Notion     *)
(* (search, page retrieve, page create).  The script is run MaxRuns times  *)
(* against the same Todoist data on the same date; every remote call may   *)
(* fail (raise_for_status / a notion_client exception).                    *)
(***************************************************************************)
EXTENDS Integers, Sequences, FiniteSets, TLC

\* ------------------------------------------------------------------ bounds
MaxRuns == 2
MaxTasks == 2
MaxResults == 2

\* --------------------------------------------------------------- constants
\* Python's None, as returned by os.getenv, get_project_id, find_page_by_name.
None == "<None>"
\* The literal of line 145.
FallbackId == "22a44c06-f763-809c-8fa7-cf92cb21f61e"
\* The text of an exception, as f"{e}" prints it.
ErrText == "<error>"

\* Python truthiness of an Optional[str]: None and "" are falsy.
Truthy(s) == s # None /\ s # ""

\* ----------------------------------------------------------------- inputs
\* os.getenv of a variable: unset, set to the empty string, or set.
EnvValues == {None, "", "token"}

\* Task contents (the API's "content" field); a task's id is its position.
Contents == {"Reflect on sleep", "Call mom"}
TaskOf(i, c) == [id |-> "T" \o ToString(i), content |-> c]
RECURSIVE SeqsUpTo(_, _)
SeqsUpTo(S, n) ==
  IF n = 0 THEN {<<>>}
  ELSE LET shorter == SeqsUpTo(S, n - 1)
       IN shorter \cup {Append(s, x) : s \in {t \in shorter : Len(t) = n - 1}, x \in S}
TaskLists ==
  {[i \in 1..Len(cs) |-> TaskOf(i, cs[i])] : cs \in SeqsUpTo(Contents, MaxTasks)}

\* GET /projects responses: with the project, without it, with a name that
\* differs in case only, and with two projects of the name.
ProjectLists ==
  { <<[id |-> "P0", name |-> "Inbox"]>>,
    <<[id |-> "P0", name |-> "Inbox"], [id |-> "P1", name |-> "Reflections"]>>,
    <<[id |-> "P2", name |-> "reflections"]>>,
    <<[id |-> "P1", name |-> "Reflections"], [id |-> "P3", name |-> "Reflections"]>> }

\* Dates: month, day of month (February with its leap day).
DaysIn(m) == IF m = 2 THEN 29 ELSE IF m \in {4, 6, 9, 11} THEN 30 ELSE 31
AllDates == {[month |-> m, day |-> d] : m \in 1..12, d \in 1..31} \
            {dt \in [month : 1..12, day : 1..31] : dt.day > DaysIn(dt.month)}
\* The dates main is run on in Spec.
RunDates == {[month |-> 11, day |-> 5], [month |-> 2, day |-> 29], [month |-> 12, day |-> 14]}

\* A property of a Notion page: the key is absent, or holds a title-typed
\* property (with its rich-text runs' plain_text), or a property of another type.
AbsentProp == [kind |-> "absent", runs |-> <<>>]
TitleProp(runs) == [kind |-> "title", runs |-> runs]
OtherProp == [kind |-> "rich_text", runs |-> <<>>]
\* One search result without its id: object, and properties under the keys
\* "title" and "Name" (extra: the mapping holds other keys).
Shape(obj, t, n, x) == [object |-> obj, title |-> t, Name |-> n, extra |-> x]
ResultShapes ==
  { Shape("page", TitleProp(<<"Journal">>), AbsentProp, FALSE),
    Shape("page", AbsentProp, TitleProp(<<"Journal">>), TRUE),
    Shape("database", TitleProp(<<"Journal">>), AbsentProp, FALSE),
    Shape("page", AbsentProp, AbsentProp, FALSE),
    Shape("page", AbsentProp, AbsentProp, TRUE),
    Shape("page", TitleProp(<<"journal">>), AbsentProp, FALSE),
    Shape("page", TitleProp(<<>>), AbsentProp, FALSE),
    Shape("page", TitleProp(<<"Journal 2024", "Journal">>), AbsentProp, FALSE),
    Shape("page", TitleProp(<<"Journal", " (old)">>), AbsentProp, FALSE),
    Shape("page", OtherProp, AbsentProp, TRUE),
    Shape("page", OtherProp, TitleProp(<<"Journal">>), FALSE),
    Shape("page", TitleProp(<<"Journal">>), TitleProp(<<"Notes">>), FALSE) }
ResultOf(i, sh) ==
  [id |-> "J" \o ToString(i), object |-> sh.object, title |-> sh.title,
   Name |-> sh.Name, extra |-> sh.extra]
\* client.search responses: it raises, or returns a sequence of results.
Raised == [ok |-> FALSE, results |-> <<>>]
Returned(rs) == [ok |-> TRUE, results |-> rs]
ResponsesOver(shapes, n) ==
  {Raised} \cup
  {Returned([i \in 1..Len(ss) |-> ResultOf(i, ss[i])]) : ss \in SeqsUpTo(shapes, n)}
AllResponses == ResponsesOver(ResultShapes, MaxResults)
\* The responses main meets in Spec.
RunShapes ==
  { Shape("page", TitleProp(<<"Journal">>), AbsentProp, FALSE),
    Shape("page", TitleProp(<<"journal">>), AbsentProp, FALSE) }
RunResponses == ResponsesOver(RunShapes, MaxResults)
QueryNames == {"Journal", "journal"}

\* --------------------------------------------------------- pure functions
\* main, line 122: not all([todoist_token, notion_token]) is the abort test.
OnlyTodoistChecked(t, n) == Truthy(t)
CredentialsPresent(t, n) == Truthy(t) /\ Truthy(n)

\* TodoistClient.get_project_id, lines 26-31: the id of the first project
\* whose name equals project_name, else None.
RECURSIVE get_project_id_from(_, _, _)
get_project_id_from(projs, project_name, i) ==
  IF i > Len(projs) THEN None
  ELSE IF projs[i].name = project_name THEN projs[i].id
  ELSE get_project_id_from(projs, project_name, i + 1)
get_project_id(projs, project_name) == get_project_id_from(projs, project_name, 1)

\* dict.get on a result's properties, and the truthiness of the mapping.
PropertiesTruthy(r) == r.title.kind # "absent" \/ r.Name.kind # "absent" \/ r.extra
\* line 52: properties.get("title") or properties.get("Name"); a property
\* object is a non-empty mapping, so it is falsy only when the key is absent.
title_prop(r) == IF r.title.kind # "absent" THEN r.title ELSE r.Name
\* line 53: title_prop and title_prop.get("title") and len(...) > 0; only a
\* title-typed property has the key "title".
HasTitleRuns(tp) == tp.kind = "title" /\ Len(tp.runs) > 0
\* lines 50-54: the test a result passes to be returned.
ResultMatches(r, name) ==
  /\ r.object = "page"
  /\ PropertiesTruthy(r)
  /\ HasTitleRuns(title_prop(r))
  /\ title_prop(r).runs[1] = name

\* NotionClient.find_page_by_name, lines 47-58: the loop over the results,
\* and None when the search raised or the loop ends.
RECURSIVE find_in_results(_, _, _)
find_in_results(results, name, i) ==
  IF i > Len(results) THEN None
  ELSE IF ResultMatches(results[i], name) THEN results[i].id
  ELSE find_in_results(results, name, i + 1)
RECURSIVE find_last_in_results(_, _, _)
find_last_in_results(results, name, i) ==
  IF i < 1 THEN None
  ELSE IF ResultMatches(results[i], name) THEN results[i].id
  ELSE find_last_in_results(results, name, i - 1)
find_last_page_by_name(resp, name) ==
  IF resp.ok THEN find_last_in_results(resp.results, name, Len(resp.results)) ELSE None
find_page_by_name(resp, name) ==
  IF resp.ok THEN find_in_results(resp.results, name, 1) ELSE None

\* create_reflections_child_page, lines 63-89: the content blocks.
Block(type, content) == [object |-> "block", type |-> type, content |-> content]
NoTasksText == "No reflection tasks found for this week."
RECURSIVE bullets(_, _)
bullets(tasks, i) ==
  IF i > Len(tasks) THEN <<>>
  ELSE <<Block("bulleted_list_item", tasks[i].content)>> \o bullets(tasks, i + 1)
content_blocks_headless(tasks) ==
  IF Len(tasks) > 0 THEN bullets(tasks, 1)
  ELSE <<Block("paragraph", NoTasksText)>>
content_blocks(tasks) ==
  IF Len(tasks) > 0
  THEN <<Block("heading_2", "Reflection Tasks")>> \o bullets(tasks, 1)
  ELSE <<Block("paragraph", NoTasksText)>>

\* get_week_title, lines 109-110.
week_number_from_day(day) == (day \div 7) + 1
week_number(day) == ((day - 1) \div 7) + 1
\* strftime("%b %d") in the C locale, line 113.
MonthAbbr ==
  <<"Jan", "Feb", "Mar", "Apr", "May", "Jun", "Jul", "Aug", "Sep", "Oct", "Nov", "Dec">>
ZeroPadded(d) == IF d < 10 THEN "0" \o ToString(d) ELSE ToString(d)
month_day(date) == MonthAbbr[date.month] \o " " \o ZeroPadded(date.day)
\* line 114.
get_week_title(date) == month_day(date) \o " Week " \o ToString(week_number(date.day))
\* main, line 158.
week_title_of(date) == "Reflections " \o get_week_title(date)

\* main, lines 144-145: the parent used when the lookup returned nothing.
AlwaysFallback(found_id) == FallbackId
journal_or_fallback(found_id) == IF Truthy(found_id) THEN found_id ELSE FallbackId

\* Where control goes when a call raises.
\* raise_for_status, lines 25 and 37: nothing catches it, it leaves main.
SourceErrorSwallowed == "returned"
AfterSourceError == "raised"
\* find_page_by_name, lines 56-58: caught, falls through to return None.
SearchErrorEscapes == "raised"
AfterSearchError == "journal_check"
\* main, lines 152-154: caught, main returns.
RetrieveErrorIgnored == "title"
AfterRetrieveError == "returned"
\* main, lines 166-167: caught, main ends.
CreateErrorEscapes == "raised"
AfterCreateError == "returned"

\* pages.create on the workspace, lines 92-98: Notion adds a page with a
\* fresh id.  run and lookup are history fields: the run that created the
\* page and what find_page_by_name had returned in that run.
SamePlace(p, parent, title) == p.parent = parent /\ p.title = title
CreateOrReuse(store, parent, title, children, r, lookup) ==
  IF \E p \in store : SamePlace(p, parent, title) THEN store
  ELSE store \cup {[id |-> "N" \o ToString(Cardinality(store) + 1), parent |-> parent,
                    title |-> title, children |-> children, run |-> r, lookup |-> lookup]}
CreatePage(store, parent, title, children, r, lookup) ==
  store \cup {[id |-> "N" \o ToString(Cardinality(store) + 1), parent |-> parent,
               title |-> title, children |-> children, run |-> r, lookup |-> lookup]}

\* ------------------------------------------------------------------ state
VARIABLES
  today,          \* datetime.now() of the runs
  projects,       \* what GET /projects returns
  source_tasks,   \* what GET /tasks?project_id= returns
  todoist_token,  \* os.getenv("TODOIST_TOKEN") of the current run
  notion_token,   \* os.getenv("NOTION_TOKEN") of the current run
  pc,             \* the position of main in the current run
  run,            \* the number of the current run
  project_id,     \* main's locals
  tasks,
  found,          \* what find_page_by_name returned
  journal_page_id,
  week_title,
  calls,          \* the remote calls of the current run, in order
  console,        \* the lines printed by the current run
  pages           \* the pages created in the Notion workspace so far

world == <<today, projects, source_tasks>>
env == <<todoist_token, notion_token>>
locals == <<project_id, tasks, found, journal_page_id, week_title>>
vars == <<today, projects, source_tasks, todoist_token, notion_token, pc, run,
          project_id, tasks, found, journal_page_id, week_title, calls, console, pages>>

\* A remote call as the services see it: the operation, whether it succeeded,
\* its argument (project id, query, page id, parent id) and, for a search,
\* the results returned, for a create, the title and children sent.
Call(op, ok, arg, title, children, results) ==
  [op |-> op, ok |-> ok, arg |-> arg, title |-> title, children |-> children,
   results |-> results]

Finished == pc \in {"returned", "raised"}

\* The state main starts a run in.
FreshLocals ==
  /\ project_id = None
  /\ tasks = <<>>
  /\ found = None
  /\ journal_page_id = None
  /\ week_title = ""

Init ==
  /\ today \in RunDates
  /\ projects \in ProjectLists
  /\ source_tasks \in TaskLists
  /\ todoist_token = None
  /\ notion_token = None
  /\ pc = "start"
  /\ run = 1
  /\ FreshLocals
  /\ calls = <<>>
  /\ console = <<>>
  /\ pages = {}

\* ---------------------------------------------------------------- actions
\* main, lines 119-128: read the two tokens; return when one is missing.
LoadCredentials ==
  /\ pc = "start"
  /\ \E t \in EnvValues, n \in EnvValues :
       /\ todoist_token' = t
       /\ notion_token' = n
       /\ IF CredentialsPresent(t, n)
          THEN /\ pc' = "get_project"
               /\ console' = console
          ELSE /\ pc' = "returned"
               /\ console' = Append(console,
                    "Missing required environment variables: TODOIST_TOKEN, NOTION_TOKEN")
  /\ UNCHANGED <<world, run, locals, calls, pages>>

\* main, lines 131-136, with TodoistClient.get_project_id, lines 24-31.
GetProject ==
  /\ pc = "get_project"
  /\ \/ \* raise_for_status raises
        /\ calls' = Append(calls, Call("projects", FALSE, "", "", <<>>, <<>>))
        /\ pc' = AfterSourceError
        /\ UNCHANGED <<project_id, console>>
     \/ /\ calls' = Append(calls, Call("projects", TRUE, "", "", <<>>, <<>>))
        /\ project_id' = get_project_id(projects, "Reflections")
        /\ IF Truthy(project_id')
           THEN /\ pc' = "get_tasks"
                /\ console' = Append(console,
                     "Found Reflections project with ID: " \o project_id')
           ELSE /\ pc' = "returned"
                /\ console' = Append(console, "Reflections project not found in Todoist")
  /\ UNCHANGED <<world, env, run, tasks, found, journal_page_id, week_title, pages>>

\* main, lines 139-140, with TodoistClient.get_project_tasks, lines 35-38.
GetTasks ==
  /\ pc = "get_tasks"
  /\ \/ /\ calls' = Append(calls, Call("tasks", FALSE, project_id, "", <<>>, <<>>))
        /\ pc' = AfterSourceError
        /\ UNCHANGED <<tasks, console>>
     \/ /\ calls' = Append(calls, Call("tasks", TRUE, project_id, "", <<>>, <<>>))
        /\ tasks' = source_tasks
        /\ console' = Append(console,
             "Found " \o ToString(Len(tasks')) \o " tasks in Reflections project")
        /\ pc' = "find_page"
  /\ UNCHANGED <<world, env, run, project_id, found, journal_page_id, week_title, pages>>

\* NotionClient.find_page_by_name(name), lines 45-58, called at line 143 and
\* answered by resp.
FindPage(name, resp) ==
  /\ pc = "find_page"
  /\ calls' = Append(calls, Call("search", resp.ok, name, "", <<>>, resp.results))
  /\ found' = find_page_by_name(resp, name)
  /\ IF resp.ok
     THEN /\ console' = console
          /\ pc' = "journal_check"
     ELSE /\ console' = Append(console, "Error finding page " \o name \o ": " \o ErrText)
          /\ pc' = AfterSearchError
  /\ UNCHANGED <<world, env, run, project_id, tasks, journal_page_id, week_title, pages>>

FindJournal == \E resp \in RunResponses : FindPage("Journal", resp)

\* main, lines 144-147.
JournalCheck ==
  /\ pc = "journal_check"
  /\ journal_page_id' = journal_or_fallback(found)
  /\ console' = Append(console, "Found Journal page")
  /\ pc' = "retrieve"
  /\ UNCHANGED <<world, env, run, project_id, tasks, found, week_title, calls, pages>>

\* main, lines 150-154.
Retrieve ==
  /\ pc = "retrieve"
  /\ \/ /\ calls' = Append(calls, Call("retrieve", TRUE, journal_page_id, "", <<>>, <<>>))
        /\ console' = console
        /\ pc' = "title"
     \/ /\ calls' = Append(calls, Call("retrieve", FALSE, journal_page_id, "", <<>>, <<>>))
        /\ console' = Append(console, "Cannot access Journal page: " \o ErrText)
        /\ pc' = AfterRetrieveError
  /\ UNCHANGED <<world, env, run, locals, pages>>

\* main, lines 157-159.
ComputeTitle ==
  /\ pc = "title"
  /\ week_title' = week_title_of(today)
  /\ console' = Append(console, "Creating page with title: " \o week_title')
  /\ pc' = "create"
  /\ UNCHANGED <<world, env, run, project_id, tasks, found, journal_page_id, calls, pages>>

\* main, lines 162-167, with create_reflections_child_page, lines 60-100.
Create ==
  /\ pc = "create"
  /\ LET children == content_blocks(tasks)
     IN \/ /\ calls' = Append(calls,
                  Call("create", TRUE, journal_page_id, week_title, children, <<>>))
           /\ pages' = CreatePage(pages, journal_page_id, week_title, children, run, found)
           /\ console' = console \o
                <<"Successfully created page with ID: "
                    \o "N" \o ToString(Cardinality(pages) + 1),
                  "Page contains " \o ToString(Len(tasks)) \o " reflection tasks">>
           /\ pc' = "returned"
        \/ /\ calls' = Append(calls,
                  Call("create", FALSE, journal_page_id, week_title, children, <<>>))
           /\ pages' = pages
           /\ console' = Append(console, "Error creating page: " \o ErrText)
           /\ pc' = AfterCreateError
  /\ UNCHANGED <<world, env, run, locals>>

\* The script is started again (line 170) after the previous run has ended.
NextRun ==
  /\ Finished
  /\ run < MaxRuns
  /\ run' = run + 1
  /\ pc' = "start"
  /\ todoist_token' = None
  /\ notion_token' = None
  /\ project_id' = None
  /\ tasks' = <<>>
  /\ found' = None
  /\ journal_page_id' = None
  /\ week_title' = ""
  /\ calls' = <<>>
  /\ console' = <<>>
  /\ UNCHANGED <<world, pages>>

Next ==
  \/ LoadCredentials
  \/ GetProject
  \/ GetTasks
  \/ FindJournal
  \/ JournalCheck
  \/ Retrieve
  \/ ComputeTitle
  \/ Create
  \/ NextRun

Spec == Init /\ [][Next]_vars

\* ------------------------------------------- specifications of the parts
\* The run of the end-to-end scenario: project P1 with one task, both tokens set.
ScenarioTasks == <<TaskOf(1, "Reflect on sleep")>>
ScenarioWorld ==
  /\ projects = <<[id |-> "P0", name |-> "Inbox"], [id |-> "P1", name |-> "Reflections"]>>
  /\ source_tasks = ScenarioTasks
  /\ todoist_token = "token"
  /\ notion_token = "token"
  /\ run = 1
  /\ pages = {}
ScenarioSourceCalls ==
  <<Call("projects", TRUE, "", "", <<>>, <<>>), Call("tasks", TRUE, "P1", "", <<>>, <<>>)>>
ScenarioSourceLines ==
  <<"Found Reflections project with ID: P1", "Found 1 tasks in Reflections project">>

\* find_page_by_name on every response and name: main at line 143.
InitFind ==
  /\ ScenarioWorld
  /\ today = [month |-> 11, day |-> 5]
  /\ pc = "find_page"
  /\ project_id = "P1"
  /\ tasks = ScenarioTasks
  /\ found = None
  /\ journal_page_id = None
  /\ week_title = ""
  /\ calls = ScenarioSourceCalls
  /\ console = ScenarioSourceLines
NextFind == \E name \in QueryNames, resp \in AllResponses : FindPage(name, resp)
SpecFind == InitFind /\ [][NextFind]_vars

\* get_week_title on every date: main at line 157, the search having found
\* nothing and the fallback page being accessible.
InitWeek ==
  /\ ScenarioWorld
  /\ today \in AllDates
  /\ pc = "title"
  /\ project_id = "P1"
  /\ tasks = ScenarioTasks
  /\ found = None
  /\ journal_page_id = FallbackId
  /\ week_title = ""
  /\ calls = ScenarioSourceCalls \o
       <<Call("search", TRUE, "Journal", "", <<>>, <<>>),
         Call("retrieve", TRUE, FallbackId, "", <<>>, <<>>)>>
  /\ console = Append(ScenarioSourceLines, "Found Journal page")
NextWeek == ComputeTitle
SpecWeek == InitWeek /\ [][NextWeek]_vars

\* ----------------------------------------------------------------- claims
CallsOf(op) == {i \in DOMAIN calls : calls[i].op = op}
FailedCalls(op) == {i \in CallsOf(op) : ~calls[i].ok}
Printed(line) == \E i \in DOMAIN console : console[i] = line
SearchErrorLine == "Error finding page Journal: <error>"
SetMin(S) == CHOOSE i \in S : \A j \in S : i <= j

\* C1: the children sent by a page-create call are, for a non-empty task
\* list, one heading followed by one bulleted item per task carrying the
\* tasks' contents in the order received (len + 1 blocks), and for an empty
\* task list the single paragraph "No reflection tasks found for this
\* week."; a paragraph never appears together with a heading or a bullet.
C1_BlocksOf(ch, T) ==
  /\ IF Len(T) > 0
     THEN /\ Len(ch) = Len(T) + 1
          /\ ch[1].type = "heading_2"
          /\ \A k \in 1..Len(T) :
               ch[k + 1].type = "bulleted_list_item" /\ ch[k + 1].content = T[k].content
     ELSE /\ Len(ch) = 1
          /\ ch[1].type = "paragraph"
          /\ ch[1].content = "No reflection tasks found for this week."
  /\ ~ /\ \E k \in DOMAIN ch : ch[k].type = "paragraph"
       /\ \E k \in DOMAIN ch : ch[k].type \in {"heading_2", "bulleted_list_item"}
C1_ChildBlocks ==
  /\ \A i \in CallsOf("create") : C1_BlocksOf(calls[i].children, source_tasks)
  /\ \A p \in pages : C1_BlocksOf(p.children, source_tasks)
C1_Witness ==
  /\ CallsOf("create") # {}
  /\ Len(source_tasks) = 2
  /\ source_tasks[1].content # source_tasks[2].content

\* C2: while TODOIST_TOKEN or NOTION_TOKEN is missing (unset or empty), the
\* run has made no call to either service, and it makes none before it ends.
C2_TokenSet(v) == v \notin {None, ""}
C2_NoCallsWithoutTokens ==
  ~(C2_TokenSet(todoist_token) /\ C2_TokenSet(notion_token)) =>
     /\ \A op \in {"projects", "tasks", "search", "retrieve", "create"} :
          Cardinality(CallsOf(op)) = 0
     /\ pc \in {"start", "returned"}
C2_Witness ==
  /\ pc = "returned"
  /\ todoist_token = "token"
  /\ notion_token = None
  /\ calls = <<>>

\* C3: the week ordinal is 1 for days 1-7, 2 for 8-14, 3 for 15-21, 4 for
\* 22-28 and 5 for 29-31, that is ((d - 1) div 7) + 1, in 1..5 and
\* non-decreasing in d; the page title is "Reflections ", the abbreviated
\* month, the zero-padded day, " Week " and the ordinal.
C3_Ordinal(d) ==
  IF d <= 7 THEN 1 ELSE IF d <= 14 THEN 2 ELSE IF d <= 21 THEN 3
  ELSE IF d <= 28 THEN 4 ELSE 5
C3_Month(m) ==
  CASE m = 1 -> "Jan" [] m = 2 -> "Feb" [] m = 3 -> "Mar" [] m = 4 -> "Apr"
    [] m = 5 -> "May" [] m = 6 -> "Jun" [] m = 7 -> "Jul" [] m = 8 -> "Aug"
    [] m = 9 -> "Sep" [] m = 10 -> "Oct" [] m = 11 -> "Nov" [] m = 12 -> "Dec"
C3_Digits == <<"0", "1", "2", "3", "4", "5", "6", "7", "8", "9">>
C3_Day(d) == C3_Digits[(d \div 10) + 1] \o C3_Digits[(d % 10) + 1]
C5_AsStated == pc # "raised"
\* C5 as amended: a run ends with an error escaping main exactly when its
\* project-list or task-list call failed; on every other path (missing
\* credentials, project not found, failing search, failing page retrieval,
\* failing page creation, success) main returns normally, and a run that
\* has not ended can always take its next step.
C5_SourceFailed == FailedCalls("projects") \cup FailedCalls("tasks") # {}
C5_ReturnsUnlessSourceFails ==
  /\ Finished => (pc = "raised" <=> C5_SourceFailed)
  /\ pc \in {"start", "get_project", "get_tasks", "find_page", "journal_check",
             "retrieve", "title", "create", "returned", "raised"}
  /\ ~Finished => ENABLED Next
C5_Witness ==
  /\ pc = "returned"
  /\ FailedCalls("search") # {}
  /\ FailedCalls("create") # {}

\* C6: the calls of a run are made in the order project-list, task-list,
\* search, page-retrieve, page-create, each at most once and only with both
\* credentials loaded; a failed project-list, task-list or page-retrieve
\* call is the last call of the run; no call follows a project list without
\* the project; a page-create call directly follows a successful
\* page-retrieve call and carries the label computed before it.
C6_Order == <<"projects", "tasks", "search", "retrieve", "create">>
C6_ProjectListed == \E k \in DOMAIN projects : projects[k].name = "Reflections"
C6_StagesInOrder ==
  /\ Len(calls) <= Len(C6_Order)
  /\ \A i \in DOMAIN calls : calls[i].op = C6_Order[i]
  /\ calls # <<>> => (todoist_token \notin {None, ""} /\ notion_token \notin {None, ""})
  /\ \A i \in FailedCalls("projects") \cup FailedCalls("tasks") \cup FailedCalls("retrieve") :
       i = Len(calls)
  /\ ~C6_ProjectListed => Len(calls) <= 1
  /\ \A i \in CallsOf("create") :
       /\ i > 1
       /\ calls[i - 1].op = "retrieve"
       /\ calls[i - 1].ok
       /\ calls[i].title = week_title
       /\ week_title # ""
  /\ pc = "create" => (CallsOf("retrieve") # {} /\ FailedCalls("retrieve") = {})
C6_Witness ==
  /\ Finished
  /\ Len(calls) = 5
  /\ calls[5].op = "create"
  /\ calls[4].ok

\* C7 as stated: pages created by different runs (same date, same source
\* data, both creations successful) are distinct and have the same title and
\* the same parent.
C7_AsStated ==
  \A p \in pages, q \in pages :
     p.run # q.run => (p.id # q.id /\ p.title = q.title /\ p.parent = q.parent)
\* C7 as amended: every successful page-create call adds a page of its own
\* (no lookup of an earlier page of that title precedes it: the run's only
\* search is the one for "Journal"); pages created by different runs are
\* distinct and have the same title and the same children, and they have
\* the same parent when find_page_by_name returned the same value in both
\* runs.
C7_NewPageEveryRun ==
  /\ \A p \in pages, q \in pages :
       p.run # q.run =>
          /\ p.id # q.id
          /\ p.title = q.title
          /\ p.children = q.children
          /\ p.lookup = q.lookup => p.parent = q.parent
  /\ \A i \in CallsOf("create") :
       calls[i].ok =>
          /\ Cardinality({p \in pages : p.run = run}) = 1
          /\ \A p \in pages :
               p.run = run => (p.title = calls[i].title /\ p.parent = calls[i].arg
                               /\ p.children = calls[i].children)
  /\ \A i \in CallsOf("search") : calls[i].arg = "Journal"
  /\ \A r \in 1..MaxRuns : Cardinality({p \in pages : p.run = r}) <= 1
C7_Witness ==
  /\ Cardinality(pages) >= 2
  /\ \E p \in pages, q \in pages :
       p.run = 1 /\ q.run = 2 /\ p.id # q.id /\ p.title = q.title /\ p.parent = q.parent

\* C8: find_page_by_name(name) returns the id of the first result, in result
\* order, that is a page whose title property (the property under "title"
\* when that key is present, else the one under "Name") is title-typed with
\* a first rich-text run equal to name, case-sensitively; it returns None
\* exactly when no result is such a page; a search that raises is caught:
\* None is returned and the run goes on.
C8_TitleProperty(r) == IF r.title.kind = "absent" THEN r.Name ELSE r.title
C8_NamedPage(r, name) ==
  /\ r.object = "page"
  /\ C8_TitleProperty(r).kind = "title"
  /\ C8_TitleProperty(r).runs # <<>>
  /\ Head(C8_TitleProperty(r).runs) = name
C9_AsStated ==
  /\ \A i \in FailedCalls("search") \cup FailedCalls("create") : pc # "raised"
  /\ \A i \in FailedCalls("projects") \cup FailedCalls("tasks") \cup FailedCalls("retrieve") :
       i = Len(calls) /\ pc = "raised"
\* C9 as amended: errors are suppressed at three call sites, the search, the
\* page retrieval and the page creation: a failed search is logged and the
\* run carries on; a failed page retrieval is logged, main returns normally
\* and no page-create call is made; a failed page creation is logged and
\* main returns normally.  A failed project-list or task-list call is not
\* suppressed: the error leaves main and no later call is made.
C9_ThreeSitesSuppressed ==
  /\ \A i \in FailedCalls("search") :
       pc # "raised" /\ Printed(SearchErrorLine)
  /\ \A i \in FailedCalls("retrieve") :
       /\ i = Len(calls)
       /\ pc = "returned"
       /\ console[Len(console)] = "Cannot access Journal page: <error>"
  /\ \A i \in FailedCalls("create") :
       /\ i = Len(calls)
       /\ pc = "returned"
       /\ console[Len(console)] = "Error creating page: <error>"
  /\ \A i \in FailedCalls("projects") \cup FailedCalls("tasks") :
       i = Len(calls) /\ pc = "raised"
  /\ pc = "raised" => FailedCalls("projects") \cup FailedCalls("tasks") # {}
C9_Witness ==
  /\ pc = "returned"
  /\ FailedCalls("retrieve") # {}
  /\ CallsOf("create") = {}

\* C10: the parent of a page-create call is the id passed to the preceding
\* page-retrieve call; it is the id find_page_by_name("Journal") returned
\* when it returned one, and the fallback id when it returned None (no
\* match, or a caught search error); a created page has this one parent.
C10_Parent(lookup) == IF lookup = None THEN FallbackId ELSE lookup
C10_ParentOfCreate ==
  /\ \A i \in CallsOf("create") :
       /\ \E j \in CallsOf("retrieve") : j = i - 1 /\ calls[j].arg = calls[i].arg
       /\ calls[i].arg = C10_Parent(found)
       /\ calls[i].ok => \E p \in pages : p.run = run /\ p.parent = calls[i].arg
  /\ \A i \in CallsOf("retrieve") : calls[i].arg = C10_Parent(found)
  /\ \A i \in FailedCalls("search") : found = None
  /\ \A p \in pages : p.parent = C10_Parent(p.lookup)
C10_Witness ==
  /\ pc = "returned"
  /\ found = "J1"
  /\ \E i \in CallsOf("create") : calls[i].ok /\ calls[i].arg = "J1"
  /\ \E p \in pages : p.run = run /\ p.parent = "J1"

====
